---- MODULE Spec2Model ----
(***************************************************************************)
(* A model of cryptobuddy.py: the CryptoBuddy data store, the price        *)
(* fetcher, the regex/keyword intent classifier, the response handlers and *)
(* the chat loop.                                                          *)
(*                                                                         *)
(* Python strings are sequences of one-character strings, so that regex    *)
(* search, lower(), title(), strip() and substring tests are computed on   *)
(* characters.  A response is the sequence of the parts concatenated by    *)
(* the code; the disclaimer is one part.  Scores are counted in halves     *)
(* (the code adds 1 per pattern and 0.5 per key term).                     *)
(***************************************************************************)
EXTENDS Integers, Sequences, FiniteSets, TLC

VARIABLES
    crypto_data,    \* self.crypto_data: name -> CryptoData fields
    pc,             \* position of the program
    feed,           \* what the last price request produced
    fetch_ok,       \* return value of the last fetch_real_time_data call
    user_input,     \* the text of the last turn / call
    intent_scores,  \* the mapping analyze_intent returned in the last call
    handler,        \* the branch of get_response that produced the response
    response,       \* return value of the last get_response / handler call
    query_count,    \* self.query_count, Unset while the attribute is absent
    accepted,       \* number of non-blank, non-exit lines read so far
    refreshed,      \* the last turn triggered the periodic refresh
    farewell,       \* a farewell message has been printed
    event,          \* what the program did last
    table,          \* asset table handed to get_sustainable_cryptos
    min_score,      \* threshold handed to get_sustainable_cryptos
    sustainable     \* return value of get_sustainable_cryptos

vars == <<crypto_data, pc, feed, fetch_ok, user_input, intent_scores, handler,
          response, query_count, accepted, refreshed, farewell, event,
          table, min_score, sustainable>>

-----------------------------------------------------------------------------
(* Characters and the string methods the code uses                         *)

UpperLetters == <<"A","B","C","D","E","F","G","H","I","J","K","L","M",
                  "N","O","P","Q","R","S","T","U","V","W","X","Y","Z">>

LowerLetters == <<"a","b","c","d","e","f","g","h","i","j","k","l","m",
                  "n","o","p","q","r","s","t","u","v","w","x","y","z">>

Digits == {"0","1","2","3","4","5","6","7","8","9"}

UpperSet == {UpperLetters[i] : i \in 1..26}

LowerSet == {LowerLetters[i] : i \in 1..26}

Whitespace == {" ", "\t", "\n"}

LowerOf == [c \in UpperSet |-> LowerLetters[CHOOSE i \in 1..26 : UpperLetters[i] = c]]

UpperOf == [c \in LowerSet |-> UpperLetters[CHOOSE i \in 1..26 : LowerLetters[i] = c]]

lower_char(c) == IF c \in UpperSet THEN LowerOf[c] ELSE c

upper_char(c) == IF c \in LowerSet THEN UpperOf[c] ELSE c

\* str.lower()
lower(s) == [i \in 1..Len(s) |-> lower_char(s[i])]

IsLetter(c) == c \in UpperSet \cup LowerSet

\* a character of the regex class \w
IsWordChar(c) == IsLetter(c) \/ c \in Digits \/ c = "_"

\* str.isalpha()
isalpha(s) == Len(s) > 0 /\ \A i \in 1..Len(s) : IsLetter(s[i])

\* str.title(): a letter that follows a non-letter is upper-cased, every
\* other letter is lower-cased
title(s) ==
    [i \in 1..Len(s) |->
        IF i = 1 \/ ~IsLetter(s[i-1]) THEN upper_char(s[i]) ELSE lower_char(s[i])]

\* str.strip()
strip(s) ==
    LET keep == {i \in 1..Len(s) : s[i] \notin Whitespace}
    IN  IF keep = {} THEN <<>>
        ELSE LET lo == CHOOSE i \in keep : \A j \in keep : i <= j
                 hi == CHOOSE i \in keep : \A j \in keep : j <= i
             IN  SubSeq(s, lo, hi)

\* `needle in haystack` on strings
Contains(haystack, needle) ==
    \E i \in 1..(Len(haystack) - Len(needle) + 1) :
        \A k \in 1..Len(needle) : haystack[i + k - 1] = needle[k]

-----------------------------------------------------------------------------
(* Regular expressions: every pattern of the code is \b(a1|a2|...)\b,      *)
(* searched with re.IGNORECASE.  An alternative is a sequence of literal   *)
(* characters; AnyOpt stands for `.?`.                                     *)

AnyOpt == "ANYOPT"

\* \b at the gap before position p (1..Len+1)
WordBoundary(text, p) ==
    LET before == p > 1 /\ IsWordChar(text[p-1])
        after  == p <= Len(text) /\ IsWordChar(text[p])
    IN  before # after

\* the positions at which alternative alt, from its k-th element on, can end
\* when it starts consuming at position i
RECURSIVE MatchEnds(_, _, _, _)
MatchEnds(alt, k, text, i) ==
    IF k > Len(alt) THEN {i}
    ELSE IF alt[k] = AnyOpt
         THEN MatchEnds(alt, k + 1, text, i)
              \cup (IF i <= Len(text) /\ text[i] # "\n"
                    THEN MatchEnds(alt, k + 1, text, i + 1) ELSE {})
         ELSE IF i <= Len(text) /\ lower_char(text[i]) = alt[k]
              THEN MatchEnds(alt, k + 1, text, i + 1)
              ELSE {}

\* re.match: the pattern tried at the start of the text only
re_match(alts, text) ==
    /\ Len(text) > 0
    /\ WordBoundary(text, 1)
    /\ \E alt \in alts : \E e \in MatchEnds(alt, 1, text, 1) : WordBoundary(text, e)

\* re.search(pattern, text, re.IGNORECASE) is not None
re_search(alts, text) ==
    \E i \in 1..Len(text) :
        /\ WordBoundary(text, i)
        /\ \E alt \in alts : \E e \in MatchEnds(alt, 1, text, i) : WordBoundary(text, e)

\* self.patterns
patterns ==
  [
    greeting |-> <<
        { <<"h","e","l","l","o">>,
          <<"h","i">>,
          <<"h","e","y">>,
          <<"g","o","o","d"," ","m","o","r","n","i","n","g">>,
          <<"g","o","o","d"," ","a","f","t","e","r","n","o","o","n">>,
          <<"g","r","e","e","t","i","n","g","s">> } >>,
    thanks |-> <<
        { <<"t","h","a","n","k"," ","y","o","u">>,
          <<"t","h","a","n","k","s">>,
          <<"t","h","x">>,
          <<"a","p","p","r","e","c","i","a","t","e">>,
          <<"g","r","a","t","e","f","u","l">> } >>,
    sustainable |-> <<
        { <<"s","u","s","t","a","i","n","a","b","l","e">>,
          <<"e","c","o","-","f","r","i","e","n","d","l","y">>,
          <<"g","r","e","e","n">>,
          <<"e","n","v","i","r","o","n","m","e","n","t">>,
          <<"c","l","e","a","n">>,
          <<"c","a","r","b","o","n">>,
          <<"r","e","n","e","w","a","b","l","e">> } >>,
    profitable |-> <<
        { <<"p","r","o","f","i","t","a","b","l","e">>,
          <<"p","r","o","f","i","t">>,
          <<"m","o","n","e","y">>,
          <<"e","a","r","n","i","n","g">>,
          <<"t","r","e","n","d","i","n","g"," ","u","p">>,
          <<"r","i","s","i","n","g">>,
          <<"b","u","l","l">>,
          <<"g","a","i","n","s">>,
          <<"r","e","t","u","r","n","s">> } >>,
    long_term |-> <<
        { <<"l","o","n","g",AnyOpt,"t","e","r","m">>,
          <<"f","u","t","u","r","e">>,
          <<"i","n","v","e","s","t"," ","f","o","r">>,
          <<"h","o","l","d">>,
          <<"h","o","d","l">>,
          <<"y","e","a","r","s">>,
          <<"d","e","c","a","d","e">> } >>,
    price |-> <<
        { <<"p","r","i","c","e">>,
          <<"c","o","s","t">>,
          <<"v","a","l","u","e">>,
          <<"w","o","r","t","h">>,
          <<"c","u","r","r","e","n","t">>,
          <<"n","o","w">>,
          <<"t","o","d","a","y">> } >>,
    market_cap |-> <<
        { <<"m","a","r","k","e","t"," ","c","a","p">>,
          <<"m","a","r","k","e","t"," ","c","a","p","i","t","a","l","i","z","a","t","i","o","n">>,
          <<"s","i","z","e">>,
          <<"v","o","l","u","m","e">> } >>,
    energy |-> <<
        { <<"e","n","e","r","g","y">>,
          <<"p","o","w","e","r">>,
          <<"c","o","n","s","u","m","p","t","i","o","n">>,
          <<"e","f","f","i","c","i","e","n","t">>,
          <<"m","i","n","i","n","g">>,
          <<"p","r","o","o","f">> },
        { <<"e","l","e","c","t","r","i","c","i","t","y">>,
          <<"w","a","t","t","s">>,
          <<"c","a","r","b","o","n"," ","f","o","o","t","p","r","i","n","t">> } >>,
    exit |-> <<
        { <<"e","x","i","t">>,
          <<"q","u","i","t">>,
          <<"b","y","e">>,
          <<"g","o","o","d","b","y","e">>,
          <<"s","t","o","p">>,
          <<"e","n","d">> } >>,
    help |-> <<
        { <<"h","e","l","p">>,
          <<"w","h","a","t"," ","c","a","n"," ","y","o","u">>,
          <<"c","o","m","m","a","n","d","s">>,
          <<"o","p","t","i","o","n","s">> } >>,
    compare |-> <<
        { <<"c","o","m","p","a","r","e">>,
          <<"v","e","r","s","u","s">>,
          <<"v","s">>,
          <<"d","i","f","f","e","r","e","n","c","e">>,
          <<"b","e","t","t","e","r">> } >>,
    recommendation |-> <<
        { <<"r","e","c","o","m","m","e","n","d">>,
          <<"s","u","g","g","e","s","t">>,
          <<"a","d","v","i","c","e">>,
          <<"b","e","s","t">>,
          <<"t","o","p">>,
          <<"s","h","o","u","l","d"," ","i">> } >>
  ]

\* the iteration order of self.patterns (a dict keeps insertion order)
IntentOrder == <<"greeting", "thanks", "sustainable", "profitable", "long_term",
                 "price", "market_cap", "energy", "exit", "help", "compare",
                 "recommendation">>

\* the intent_keywords dict of analyze_intent
intent_keywords ==
  [
    sustainable |-> { <<"g","r","e","e","n">>, <<"e","c","o">>,
                      <<"e","n","v","i","r","o","n","m","e","n","t">>,
                      <<"c","a","r","b","o","n">>, <<"c","l","e","a","n">> },
    profitable  |-> { <<"p","r","o","f","i","t">>, <<"m","o","n","e","y">>,
                      <<"g","a","i","n">>, <<"b","u","l","l">>, <<"e","a","r","n">> },
    long_term   |-> { <<"f","u","t","u","r","e">>, <<"h","o","l","d">>,
                      <<"l","o","n","g">>, <<"i","n","v","e","s","t">>,
                      <<"y","e","a","r","s">> },
    price       |-> { <<"p","r","i","c","e">>, <<"c","o","s","t">>,
                      <<"v","a","l","u","e">>, <<"c","u","r","r","e","n","t">> },
    compare     |-> { <<"c","o","m","p","a","r","e">>, <<"v","e","r","s","u","s">>,
                      <<"b","e","t","t","e","r">>,
                      <<"d","i","f","f","e","r","e","n","c","e">> }
  ]


-----------------------------------------------------------------------------
(* Key terms                                                               *)

RECURSIVE SortedSeq(_)
\* the elements of a set of integers in increasing order
SortedSeq(S) ==
    IF S = {} THEN <<>>
    ELSE LET m == CHOOSE x \in S : \A y \in S : x <= y
         IN  <<m>> \o SortedSeq(S \ {m})

\* punctuation that nltk's word_tokenize makes a token of its own
SplitPunct == {",", "!", "?", ";", ":"}

InToken(c) == c \notin Whitespace \cup SplitPunct

\* the characters a run is made of: those of \w, or those of a token
KeepChar(kind, c) == IF kind = "word" THEN IsWordChar(c) ELSE InToken(c)

\* the maximal runs of characters of a kind, left to right
Runs(s, kind) ==
    LET starts == {i \in 1..Len(s) :
                      KeepChar(kind, s[i]) /\ (i = 1 \/ ~KeepChar(kind, s[i-1]))}
        endOf(i) == CHOOSE j \in i..Len(s) :
                        /\ \A k \in i..j : KeepChar(kind, s[k])
                        /\ (j = Len(s) \/ ~KeepChar(kind, s[j+1]))
        ss == SortedSeq(starts)
    IN  [n \in 1..Len(ss) |-> SubSeq(s, ss[n], endOf(ss[n]))]

\* word_tokenize(text), without the punctuation tokens (none is alphabetic)
word_tokenize(text) == Runs(text, "token")

\* stopwords.words('english'), the entries short texts about prices can hold
EnglishStopWords ==
    { <<"i">>, <<"m","e">>, <<"m","y">>, <<"w","e">>,
      <<"y","o","u">>, <<"i","t">>, <<"t","h","e">>, <<"a">>,
      <<"a","n">>, <<"a","n","d">>, <<"o","r">>, <<"b","u","t">>,
      <<"f","o","r">>, <<"w","i","t","h">>, <<"o","f">>, <<"t","o">>,
      <<"i","n">>, <<"o","n">>, <<"i","s">>, <<"a","r","e">>,
      <<"w","h","a","t">>, <<"c","a","n">>, <<"s","h","o","u","l","d">>, <<"n","o","w">>,
      <<"h","o","w">>, <<"a","b","o","u","t">>, <<"t","h","a","n">>, <<"m","o","r","e">>,
      <<"m","o","s","t">>, <<"v","e","r","y">>, <<"n","o","t">>, <<"d","o">> }

\* self.stop_words: the English list, or the empty set when loading it failed
stop_words(loaded) == IF loaded THEN EnglishStopWords ELSE {}

\* the stop-word set of the fallback path
FallbackStopWords == { <<"t","h","e">>, <<"a","n","d">>, <<"o","r">>, <<"b","u","t">>, <<"f","o","r">>, <<"w","i","t","h">> }

\* the sub-sequences of a sequence
SubSequences(f) ==
    { LET idx == SortedSeq(m) IN [n \in 1..Len(idx) |-> f[idx[n]]] :
        m \in SUBSET (1..Len(f)) }

\* the primary path: alphabetic tokens that are no stop-words, of which the
\* part-of-speech tagger keeps those it tags NN*, JJ* or VB*; which ones it
\* keeps is the tagger's decision, so every sub-sequence is an outcome
key_terms_tagged(text, loaded) ==
    LET IsKept(w) == isalpha(w) /\ w \notin stop_words(loaded)
    IN  SubSequences(SelectSeq(word_tokenize(lower(text)), IsKept))

\* the fallback path: re.findall(r'\b\w+\b'), length > 2, not a stop-word
key_terms_fallback(text) ==
    LET IsKept(w) == Len(w) > 2 /\ w \notin FallbackStopWords
    IN  SelectSeq(Runs(lower(text), "word"), IsKept)

\* every list extract_key_terms(text) can return
extract_key_terms(text) ==
    {key_terms_fallback(text)}
    \cup key_terms_tagged(text, TRUE) \cup key_terms_tagged(text, FALSE)

-----------------------------------------------------------------------------
(* Input texts                                                             *)

\* the largest number of words of a line
MaxWords == 2

\* the words typed; the last one names two assets
Vocabulary ==
    { <<"e","x","i","t">>,
      <<"Q","u","i","t">>,
      <<"b","y","e","!">>,
      <<"e","x","i","t","s">>,
      <<"h","e","l","l","o">>,
      <<"t","h","a","n","k","s">>,
      <<"h","e","l","p">>,
      <<"e","c","o","-","f","r","i","e","n","d","l","y">>,
      <<"p","r","o","f","i","t">>,
      <<"p","r","i","c","e">>,
      <<"c","o","m","p","a","r","e">>,
      <<"e","n","e","r","g","y">>,
      <<"b","i","t","c","o","i","n">>,
      <<"E","t","h","e","r","e","u","m","s">>,
      <<"s","o","l","a","n","a">>,
      <<"b","i","t","c","o","i","n",",","E","t","h","e","r","e","u","m","s">> }

RECURSIVE JoinWords(_)
\* ' '.join(words)
JoinWords(ws) ==
    IF Len(ws) = 0 THEN <<>>
    ELSE IF Len(ws) = 1 THEN ws[1]
    ELSE ws[1] \o <<" ">> \o JoinWords(Tail(ws))

\* the lines typed: up to MaxWords words, and the one-word lines with blanks
\* around them
Inputs ==
    { JoinWords(ws) : ws \in UNION {[1..n -> Vocabulary] : n \in 0..MaxWords} }
    \cup { <<" ">> \o w \o <<" ">> : w \in Vocabulary }

-----------------------------------------------------------------------------
(* Intent scoring                                                          *)

\* the number of patterns of an intent that re.search finds in the text
patterns_found(intent, text) ==
    Cardinality({p \in 1..Len(patterns[intent]) : re_search(patterns[intent][p], text)})

\* patterns_found for the stripped input texts, computed once per text
StrippedInputs == {strip(t) : t \in Inputs}

FoundTable ==
    [ text \in StrippedInputs |->
        [ intent \in DOMAIN patterns |-> patterns_found(intent, text) ] ]

\* match_pattern(user_input, pattern_key): some pattern of the key is found
match_pattern(text, pattern_key) ==
    IF text \in StrippedInputs THEN FoundTable[text][pattern_key] > 0
    ELSE \E p \in 1..Len(patterns[pattern_key]) : re_search(patterns[pattern_key][p], text)

\* the score of one intent, in halves: 1 per matching pattern, 0.5 per key
\* term found in the intent's keyword list
intent_score(intent, text, key_terms) ==
    LET matched == IF text \in StrippedInputs THEN FoundTable[text][intent]
                   ELSE patterns_found(intent, text)
        boost == IF intent \in DOMAIN intent_keywords
                 THEN Cardinality({n \in 1..Len(key_terms) :
                                      key_terms[n] \in intent_keywords[intent]})
                 ELSE 0
    IN  2 * matched + boost

\* analyze_intent: the dict, as its items in insertion order
analyze_intent(text, key_terms) ==
    LET scored == [n \in 1..Len(IntentOrder) |->
                      <<IntentOrder[n], intent_score(IntentOrder[n], text, key_terms)>>]
        Positive(item) == item[2] > 0
    IN  SelectSeq(scored, Positive)

RECURSIVE max_item_last(_, _, _)
\* a scan that lets a later item of equal key replace the best one
max_item_last(items, n, best) ==
    IF n > Len(items) THEN best
    ELSE max_item_last(items, n + 1, IF items[n][2] >= best[2] THEN items[n] ELSE best)

\* the scan of Python's max: a later item replaces the best one only when
\* its key is strictly greater
RECURSIVE max_item(_, _, _)
max_item(items, n, best) ==
    IF n > Len(items) THEN best
    ELSE max_item(items, n + 1, IF items[n][2] > best[2] THEN items[n] ELSE best)

\* top_intent = max(intent_scores.items(), key=lambda x: x[1])[0]
top_intent(items) == max_item(items, 2, items[1])[1]

-----------------------------------------------------------------------------
(* The data store                                                          *)

\* a JSON / Python value as far as the code tells values apart: a number, or
\* something that is no number (None, a string, a list), or an absent key
Num(n) == [t |-> "number", v |-> n]

NonNumeric == [t |-> "other", v |-> 0]

Absent == [t |-> "absent", v |-> 0]

IsNum(x) == x.t = "number"

\* the keys of self.crypto_data, in insertion order
Assets == <<"Bitcoin", "Ethereum", "Cardano", "Solana", "Polygon">>

AssetSet == {Assets[i] : i \in 1..Len(Assets)}

\* the characters of each key
NameChars ==
    [ Bitcoin  |-> <<"B","i","t","c","o","i","n">>,
      Ethereum |-> <<"E","t","h","e","r","e","u","m">>,
      Cardano  |-> <<"C","a","r","d","a","n","o">>,
      Solana   |-> <<"S","o","l","a","n","a">>,
      Polygon  |-> <<"P","o","l","y","g","o","n">> ]

\* self.crypto_api_ids
crypto_api_ids ==
    [ Bitcoin |-> "bitcoin", Ethereum |-> "ethereum", Cardano |-> "cardano",
      Solana |-> "solana", Polygon |-> "matic-network" ]

\* CryptoData(price_trend, market_cap, energy_use, sustainability_score)
CryptoData(trend, cap, energy, score) ==
    [ price_trend |-> trend, market_cap |-> cap, energy_use |-> energy,
      sustainability_score |-> score,
      current_price |-> Num(0), price_change_24h |-> Num(0) ]

\* self.crypto_data after __init__
InitialData ==
    [ Bitcoin  |-> CryptoData("rising", "high", "high", <<"3","/","1","0">>),
      Ethereum |-> CryptoData("stable", "high", "medium", <<"6","/","1","0">>),
      Cardano  |-> CryptoData("rising", "medium", "low", <<"8","/","1","0">>),
      Solana   |-> CryptoData("rising", "high", "low", <<"7","/","1","0">>),
      Polygon  |-> CryptoData("stable", "medium", "low", <<"9","/","1","0">>) ]

-----------------------------------------------------------------------------
(* fetch_real_time_data                                                    *)

\* the bounds of `if change > 5` / `elif change < -5`
TrendThreshold == 5

\* the trend derived from a numeric 24h change
trend_ge(change) ==
    IF change >= TrendThreshold THEN "rising"
    ELSE IF change <= -TrendThreshold THEN "falling"
    ELSE "stable"

trend_of(change) ==
    IF change > TrendThreshold THEN "rising"
    ELSE IF change < -TrendThreshold THEN "falling"
    ELSE "stable"

\* the outcomes of requests.get / raise_for_status / response.json that raise
FeedErrors ==
    { [kind |-> "error", cause |-> c, data |-> <<>>] :
        c \in {"network error", "timeout", "http status", "malformed json"} }

\* a response that parsed: data maps api ids to entries
JsonFeed(d) == [kind |-> "json", cause |-> "", data |-> d]

RECURSIVE update_from(_, _, _)
\* the for loop over self.crypto_api_ids.items(), from the n-th item on;
\* an exception leaves the loop with the fields written so far
update_from(data, d, n) ==
    IF n > Len(Assets) THEN [ok |-> TRUE, data |-> data]
    ELSE LET name == Assets[n]
             api_id == crypto_api_ids[name]
         IN  IF api_id \notin DOMAIN d THEN update_from(data, d, n + 1)
             ELSE LET e == d[api_id]
                      change == IF e.change.t = "absent" THEN Num(0) ELSE e.change
                      priced == [data EXCEPT ![name].current_price = e.usd,
                                             ![name].price_change_24h = change]
                  IN  IF e.usd.t = "absent"       \* KeyError: 'usd'
                      THEN [ok |-> FALSE, data |-> data]
                      ELSE IF ~IsNum(change)       \* TypeError in `change > 5`
                      THEN [ok |-> FALSE, data |-> priced]
                      ELSE update_from(
                               [priced EXCEPT ![name].price_trend = trend_of(change.v)],
                               d, n + 1)

\* fetch_real_time_data: the value returned and self.crypto_data afterwards
fetch_real_time_data(data, f) ==
    IF f.kind = "error" THEN [ok |-> FALSE, data |-> data]
    ELSE update_from(data, f.data, 1)

-----------------------------------------------------------------------------
(* Sustainability ranking                                                  *)

DigitValue == [c \in Digits |->
    CHOOSE n \in 0..9 : <<"0","1","2","3","4","5","6","7","8","9">>[n + 1] = c]

\* the index of the first '/' of s, or Len(s) + 1
FirstSlash(s) ==
    IF \E i \in 1..Len(s) : s[i] = "/"
    THEN CHOOSE i \in 1..Len(s) : s[i] = "/" /\ \A j \in 1..(i-1) : s[j] # "/"
    ELSE Len(s) + 1

RECURSIVE DecimalValue(_)
\* the value of a sequence of digits
DecimalValue(ds) ==
    IF Len(ds) = 0 THEN 0
    ELSE 10 * DecimalValue(SubSeq(ds, 1, Len(ds) - 1)) + DigitValue[ds[Len(ds)]]

\* int(sustainability_score.split('/')[0]), None when int() raises; the
\* score strings drawn carry no sign and no blanks
get_sustainability_numeric_score(score) ==
    LET head == SubSeq(score, 1, FirstSlash(score) - 1)
    IN  IF Len(head) > 0 /\ \A i \in 1..Len(head) : head[i] \in Digits
        THEN Num(DecimalValue(head))
        ELSE NonNumeric

\* Python's truth test of `score`: None and 0 are false
Truthy(score) == IsNum(score) /\ score.v # 0

RECURSIVE sorted_desc(_)
\* sorted(items, key=lambda x: x[1], reverse=True): stable, so of the items
\* with the greatest key the first comes first
sorted_desc(items) ==
    IF Len(items) = 0 THEN <<>>
    ELSE LET i == CHOOSE k \in 1..Len(items) :
                      /\ \A j \in 1..Len(items) : items[j][2] <= items[k][2]
                      /\ \A j \in 1..(k-1) : items[j][2] < items[k][2]
             rest == [n \in 1..(Len(items) - 1) |->
                         IF n < i THEN items[n] ELSE items[n + 1]]
         IN  <<items[i]>> \o sorted_desc(rest)

\* the pairs (name, score) the loop of get_sustainable_cryptos appends; items
\* are the (name, sustainability_score) pairs of the dict in insertion order
sustainable_scan(items, threshold) ==
    LET scored == [n \in 1..Len(items) |->
                      <<items[n][1], get_sustainability_numeric_score(items[n][2])>>]
        Kept(x) == Truthy(x[2]) /\ x[2].v >= threshold
        kept == SelectSeq(scored, Kept)
    IN  [n \in 1..Len(kept) |-> <<kept[n][1], kept[n][2].v>>]

\* get_sustainable_cryptos(min_score)
get_sustainable_cryptos(items, threshold) ==
    sorted_desc(sustainable_scan(items, threshold))

\* the default of min_score
DefaultMinScore == 7

\* self.crypto_data.items(), reduced to (name, sustainability_score)
ScoreItems(data) ==
    [n \in 1..Len(Assets) |-> <<Assets[n], data[Assets[n]].sustainability_score>>]

\* get_rising_cryptos()
get_rising_cryptos(data) ==
    LET Rising(name) == data[name].price_trend = "rising"
    IN  SelectSeq(Assets, Rising)

-----------------------------------------------------------------------------
(* Responses.  A response is the sequence of the parts the code            *)
(* concatenates; a part records what it shows of an asset.                 *)

Hidden == [t |-> "hidden", v |-> 0]

\* a fixed text
Text(kind) ==
    [ part |-> kind, name |-> "", price |-> Hidden, change |-> Hidden,
      trend |-> "", market_cap |-> "", energy_use |-> "", score |-> <<>> ]

\* self.ethics_disclaimer
ethics_disclaimer == Text("ethics_disclaimer")

\* evaluating `current_price > 0`, and `price_change_24h >= 0` or its
\* formatting under it, raises for a value that is no number
Raises(d) ==
    \/ ~IsNum(d.current_price)
    \/ d.current_price.v > 0 /\ ~IsNum(d.price_change_24h)

\* current_price > 0
PriceKnown(d) == IsNum(d.current_price) /\ d.current_price.v > 0

ShownPrice(d) == IF PriceKnown(d) THEN d.current_price ELSE Hidden

ShownChange(d) == IF PriceKnown(d) THEN d.price_change_24h ELSE Hidden

\* the block get_crypto_with_prices builds for a key of the dict
DetailBlock(data, name) ==
    LET d == data[name]
    IN  [ part |-> "details", name |-> name,
          price |-> ShownPrice(d), change |-> ShownChange(d),
          trend |-> d.price_trend, market_cap |-> d.market_cap,
          energy_use |-> d.energy_use, score |-> d.sustainability_score ]

\* what a call returns: a value, or the exception that left it
Returned(parts) == [returned |-> TRUE, parts |-> parts]

Raised == [returned |-> FALSE, parts |-> <<>>]

\* get_crypto_with_prices(crypto_name) + self.ethics_disclaimer: the name is
\* title-cased and looked up; None + str raises
crypto_with_prices_reply(data, crypto_name) ==
    LET titled == title(crypto_name)
        found == {a \in AssetSet : NameChars[a] = titled}
    IN  IF found = {} THEN Raised
        ELSE LET a == CHOOSE x \in found : TRUE
             IN  IF Raises(data[a]) THEN Raised
                 ELSE Returned(<<DetailBlock(data, a), ethics_disclaimer>>)

\* f"{score}/10"
FormatScore(n) ==
    LET digit(k) == CHOOSE c \in Digits : DigitValue[c] = k
    IN  (IF n >= 10 THEN <<digit(n \div 10)>> ELSE <<>>)
        \o <<digit(n % 10), "/", "1", "0">>

\* handle_sustainability_query()
handle_sustainability_query(data) ==
    LET found == get_sustainable_cryptos(ScoreItems(data), DefaultMinScore)
        best == [Text("sustainable_best") EXCEPT
                    !.name = found[1][1],
                    !.score = data[found[1][1]].sustainability_score]
        others == [n \in 1..(Len(found) - 1) |->
                      [Text("sustainable_other") EXCEPT
                          !.name = found[n + 1][1],
                          !.score = FormatScore(found[n + 1][2])]]
    IN  IF Len(found) > 0
        THEN Returned(<<best>> \o others \o <<ethics_disclaimer>>)
        ELSE Returned(<<Text("none_found")>>)

\* rising_cryptos[:3]
TopRising == 3

\* handle_profitability_query()
handle_profitability_query(data) ==
    LET rising == get_rising_cryptos(data)
        listed == [n \in 1..Len(rising) |->
                      [Text("rising_name") EXCEPT !.name = rising[n]]]
        top == SubSeq(rising, 1, IF Len(rising) < TopRising THEN Len(rising) ELSE TopRising)
        Known(name) == PriceKnown(data[name])
        priced == SelectSeq(top, Known)
        rows == [n \in 1..Len(priced) |->
                    [Text("rising_price") EXCEPT
                        !.name = priced[n],
                        !.price = data[priced[n]].current_price,
                        !.change = data[priced[n]].price_change_24h]]
    IN  IF Len(rising) > 0
        THEN IF \E n \in 1..Len(top) : Raises(data[top[n]]) THEN Raised
             ELSE Returned(listed \o rows \o <<ethics_disclaimer>>)
        ELSE Returned(<<Text("no_rising_trend")>>)

\* a scan of the keys that compares without lower-casing
mentioned_case_sensitive(text) ==
    LET Mentioned(name) == Contains(text, NameChars[name])
    IN  SelectSeq(Assets, Mentioned)

\* the keys whose lower-cased name occurs in the lower-cased input, in the
\* order of the loop over self.crypto_data.keys()
mentioned_cryptos(text) ==
    LET Mentioned(name) == Contains(lower(text), lower(NameChars[name]))
    IN  SelectSeq(Assets, Mentioned)

\* len(mentioned_cryptos) >= 2
MinCompared == 2

\* handle_comparison_query(user_input)
handle_comparison_query(data, text) ==
    LET mentioned == mentioned_cryptos(text)
        heading == [n \in 1..Len(mentioned) |->
                       [Text("comparing") EXCEPT !.name = mentioned[n]]]
        blocks == [n \in 1..Len(mentioned) |->
                      LET d == data[mentioned[n]]
                      IN  [Text("compare_block") EXCEPT
                              !.name = mentioned[n],
                              !.price = ShownPrice(d), !.change = ShownChange(d),
                              !.score = d.sustainability_score,
                              !.energy_use = d.energy_use]]
    IN  IF Len(mentioned) >= MinCompared
        THEN IF \E n \in 1..Len(mentioned) : Raises(data[mentioned[n]]) THEN Raised
             ELSE Returned(heading \o blocks \o <<ethics_disclaimer>>)
        ELSE Returned(<<Text("compare_instruction")>>)

\* the "General price info" table of get_response
price_table(data) ==
    LET Known(name) == PriceKnown(data[name])
        priced == SelectSeq(Assets, Known)
        rows == [n \in 1..Len(priced) |->
                    [Text("price_row") EXCEPT
                        !.name = priced[n],
                        !.price = data[priced[n]].current_price,
                        !.change = data[priced[n]].price_change_24h]]
    IN  IF \E a \in AssetSet : Raises(data[a]) THEN Raised
        ELSE Returned(<<Text("price_heading")>> \o rows \o <<ethics_disclaimer>>)

-----------------------------------------------------------------------------
(* get_response                                                            *)

\* the intents get_response has a branch for
Handled == {"greeting", "thanks", "help", "compare", "sustainable",
            "profitable", "price"}

Reply(result, branch, scores) ==
    [ returned |-> result.returned, parts |-> result.parts,
      handler |-> branch, scores |-> scores ]

\* the loops `for crypto_name in self.crypto_data.keys(): if crypto_name.lower()
\* in user_input.lower(): return ...` return at the first key found
named_reply(data, text) ==
    LET found == mentioned_cryptos(text)
    IN  crypto_with_prices_reply(data, NameChars[found[1]])

\* the `price` branch
price_reply(data, text) ==
    IF Len(mentioned_cryptos(text)) > 0 THEN named_reply(data, text)
    ELSE price_table(data)

\* the code after the intent branches: a named asset, else the default text
fall_through(data, text, scores) ==
    IF Len(mentioned_cryptos(text)) > 0
    THEN Reply(named_reply(data, text), "mention", scores)
    ELSE Reply(Returned(<<Text("default"), ethics_disclaimer>>), "default", scores)

\* the branch taken for top_intent
dispatch(data, text, scores, top) ==
    IF top \in {"greeting", "thanks", "help"}
    THEN Reply(Returned(<<Text(top)>>), top, scores)
    ELSE IF top = "compare"
    THEN Reply(handle_comparison_query(data, text), top, scores)
    ELSE IF top = "sustainable"
    THEN Reply(handle_sustainability_query(data), top, scores)
    ELSE IF top = "profitable"
    THEN Reply(handle_profitability_query(data), top, scores)
    ELSE IF top = "price"
    THEN Reply(price_reply(data, text), top, scores)
    ELSE fall_through(data, text, scores)

\* get_response(user_input), with the list extract_key_terms returns in it
get_response(data, raw, key_terms) ==
    LET text == strip(raw)
        scores == analyze_intent(text, key_terms)
    IN  IF match_pattern(text, "exit")
        THEN Reply(Returned(<<Text("EXIT")>>), "exit", <<>>)
        ELSE IF Len(scores) > 0
        THEN dispatch(data, text, scores, top_intent(scores))
        ELSE fall_through(data, text, scores)

\* the replies get_response can give to a line
Replies(data, raw) ==
    { get_response(data, raw, kt) : kt \in extract_key_terms(strip(raw)) }

-----------------------------------------------------------------------------
(* Price feeds                                                             *)

Entry(usd, change) == [usd |-> usd, change |-> change]

ApiIds == {crypto_api_ids[a] : a \in AssetSet}

\* the 24h changes a response carries: around both thresholds, and none
FeedChanges ==
    { Num(c) : c \in { -(TrendThreshold + 1), -TrendThreshold, 0,
                       TrendThreshold, TrendThreshold + 1 } }

\* the prices a response carries
FeedPrices == { Num(0), Num(3) }

\* entries: the price or the change may be absent or be no number
Entries ==
    { Entry(u, c) : u \in FeedPrices \cup {Absent, NonNumeric},
                    c \in FeedChanges \cup {Absent, NonNumeric} }

\* the largest number of entries of a response drawn from Feeds
MaxEntries == 2

\* the outcomes of one price request
Feeds ==
    FeedErrors
    \cup { JsonFeed(d) :
             d \in UNION { [ids -> Entries] :
                             ids \in {S \in SUBSET ApiIds : Cardinality(S) <= MaxEntries} } }

\* a failed request
TimeoutFeed == [kind |-> "error", cause |-> "timeout", data |-> <<>>]

\* a lively market: every asset priced
LivelyFeed ==
    JsonFeed([ id \in ApiIds |->
        IF id = "bitcoin" THEN Entry(Num(3), Num(TrendThreshold + 1))
        ELSE IF id = "ethereum" THEN Entry(Num(3), Num(0))
        ELSE IF id = "cardano" THEN Entry(Num(0), Num(-(TrendThreshold + 1)))
        ELSE IF id = "solana" THEN Entry(Num(3), Num(TrendThreshold))
        ELSE Entry(Num(3), Absent) ])

\* a quiet market: no change beyond a threshold
QuietFeed ==
    JsonFeed([ id \in ApiIds |->
        IF id = "bitcoin" THEN Entry(Num(3), Num(-TrendThreshold))
        ELSE Entry(Num(0), Num(0)) ])

\* a price that is null
NullPriceFeed == JsonFeed([ id \in {"bitcoin"} |-> Entry(NonNumeric, Num(0)) ])

\* an entry without its price field after a good one
BrokenFeed ==
    JsonFeed([ id \in {"bitcoin", "ethereum"} |->
        IF id = "bitcoin" THEN Entry(Num(3), Num(0)) ELSE Entry(Absent, Num(0)) ])

\* a 24h change that is null: the price is stored, then `change > 5` raises
NullChangeFeed == JsonFeed([ id \in {"bitcoin"} |-> Entry(Num(3), NonNumeric) ])

\* the outcomes of the request made at start-up
StartupFeeds ==
    {TimeoutFeed, LivelyFeed, QuietFeed, NullPriceFeed, NullChangeFeed, BrokenFeed}

-----------------------------------------------------------------------------
(* The program                                                             *)

\* hasattr(self, 'query_count') is false
Unset == Absent

NoReply == [returned |-> TRUE, parts |-> <<>>]

NoFeed == [kind |-> "none", cause |-> "", data |-> <<>>]

Init ==
    /\ crypto_data = InitialData
    /\ pc = "startup"
    /\ feed = NoFeed
    /\ fetch_ok = FALSE
    /\ user_input = <<>>
    /\ intent_scores = <<>>
    /\ handler = ""
    /\ response = NoReply
    /\ query_count = Unset
    /\ accepted = 0
    /\ refreshed = FALSE
    /\ farewell = FALSE
    /\ event = "constructed"
    /\ table = <<>>
    /\ min_score = DefaultMinScore
    /\ sustainable = <<>>

turn_vars == <<user_input, intent_scores, handler, response>>

loop_vars == <<query_count, accepted, refreshed, farewell>>

rank_vars == <<table, min_score, sustainable>>

\* chat(): the fetch before the loop
StartupFetch ==
    /\ pc = "startup"
    /\ \E f \in StartupFeeds :
         LET r == fetch_real_time_data(crypto_data, f)
         IN  /\ crypto_data' = r.data
             /\ fetch_ok' = r.ok
             /\ feed' = f
    /\ pc' = "prompt"
    /\ event' = "startup"
    /\ UNCHANGED <<turn_vars, loop_vars, rank_vars>>

\* a later call of fetch_real_time_data
Refresh ==
    /\ pc = "prompt"
    /\ \E f \in Feeds :
         LET r == fetch_real_time_data(crypto_data, f)
         IN  /\ crypto_data' = r.data
             /\ fetch_ok' = r.ok
             /\ feed' = f
    /\ pc' = "fetched"
    /\ event' = "refresh"
    /\ UNCHANGED <<turn_vars, loop_vars, rank_vars>>

NextFetch == StartupFetch \/ Refresh

SpecFetch == Init /\ [][NextFetch]_vars

-----------------------------------------------------------------------------
(* Claims about fetch_real_time_data, under SpecFetch                      *)

\* the dynamic fields of an asset
Dynamic(d) == <<d.current_price, d.price_change_24h, d.price_trend>>

\* C1: a call of fetch_real_time_data that returns False leaves every
\* asset's current_price, price_change_24h and price_trend as they were
\* before the call.
FailedFetchChangesNothing ==
    [][ (event' \in {"startup", "refresh"} /\ ~fetch_ok')
            => \A a \in AssetSet : Dynamic(crypto_data'[a]) = Dynamic(crypto_data[a]) ]_vars

\* the 24h change the code reads from an entry: 0 when the field is absent
ChangeRead(e) == IF e.change.t = "absent" THEN 0 ELSE e.change.v

\* C4: after a fetch that returned True, every asset with an entry in the
\* response has trend rising exactly when its change is > 5, falling exactly
\* when it is < -5 and stable otherwise; +5, -5 and an absent change give
\* stable.
TrendFollowsChange ==
    (event \in {"startup", "refresh"} /\ fetch_ok) =>
        \A a \in AssetSet :
            crypto_api_ids[a] \in DOMAIN feed.data =>
                LET c == ChangeRead(feed.data[crypto_api_ids[a]])
                    t == crypto_data[a].price_trend
                IN  /\ (t = "rising") <=> (c > 5)
                    /\ (t = "falling") <=> (c < -5)
                    /\ (t = "stable") <=> (c >= -5 /\ c <= 5)

\* a successful refresh whose response carries +5 for one asset and no change
\* field for another: both are stable
TrendBoundaryReached ==
    /\ event = "refresh" /\ fetch_ok
    /\ \E a, b \in AssetSet :
         /\ crypto_api_ids[a] \in DOMAIN feed.data
         /\ crypto_api_ids[b] \in DOMAIN feed.data
         /\ feed.data[crypto_api_ids[a]].change = Num(5)
         /\ feed.data[crypto_api_ids[b]].change = Absent
         /\ crypto_data[a].price_trend = "stable"
         /\ crypto_data[b].price_trend = "stable"
         /\ crypto_data[b].price_change_24h = Num(0)

-----------------------------------------------------------------------------
(* get_sustainable_cryptos on asset tables                                 *)

\* the greatest sustainability score, the 10 of "N/10"
TopScore == 10

\* the largest table drawn
MaxAssets == 3

\* score strings: "0/10" .. "10/10", and one int() rejects
ScoreStrings == { FormatScore(n) : n \in 0..TopScore } \cup { <<"n","/","a">> }

\* tables of up to MaxAssets assets, keyed by the first names of Assets
Tables ==
    UNION { { [k \in 1..n |-> <<Assets[k], scores[k]>>] : scores \in [1..n -> ScoreStrings] } :
             n \in 0..MaxAssets }

\* a table and a threshold are handed over
Draw ==
    /\ pc = "startup"
    /\ table' \in Tables
    /\ min_score' \in 0..TopScore
    /\ pc' = "drawn"
    /\ event' = "drawn"
    /\ UNCHANGED <<crypto_data, feed, fetch_ok, turn_vars, loop_vars, sustainable>>

\* get_sustainable_cryptos(min_score) on the table
Rank ==
    /\ pc = "drawn"
    /\ sustainable' = get_sustainable_cryptos(table, min_score)
    /\ pc' = "ranked"
    /\ event' = "ranked"
    /\ UNCHANGED <<crypto_data, feed, fetch_ok, turn_vars, loop_vars, table, min_score>>

NextRank == Draw \/ Rank

SpecRank == Init /\ [][NextRank]_vars

\* the numeric score of the n-th asset of the table
ScoreAt(n) == get_sustainability_numeric_score(table[n][2])

\* the positions of the table whose score parses and is >= min_score
Qualifying == { n \in 1..Len(table) : IsNum(ScoreAt(n)) /\ ScoreAt(n).v >= min_score }

\* C5: get_sustainable_cryptos(minScore) returns exactly the assets whose
\* score parses and is >= minScore (an asset of score 0 included when
\* minScore is 0), as (name, score) pairs, sorted by score descending,
\* equal scores in table order.
SustainableIsExactAndSorted ==
    pc = "ranked" =>
        /\ Len(sustainable) = Cardinality(Qualifying)
        /\ \A n \in Qualifying :
             \E k \in 1..Len(sustainable) : sustainable[k] = <<table[n][1], ScoreAt(n).v>>
        /\ \A k \in 1..(Len(sustainable) - 1) : sustainable[k][2] >= sustainable[k + 1][2]
        /\ \A n, m \in Qualifying :
             (n < m /\ ScoreAt(n).v = ScoreAt(m).v) =>
                 \E k, l \in 1..Len(sustainable) :
                     /\ k < l
                     /\ sustainable[k][1] = table[n][1]
                     /\ sustainable[l][1] = table[m][1]

-----------------------------------------------------------------------------
(* One question after start-up                                             *)

\* get_response(user_input) for a line typed at the prompt
Ask ==
    /\ pc = "prompt"
    /\ \E text \in Inputs : \E r \in Replies(crypto_data, text) :
         /\ user_input' = text
         /\ intent_scores' = r.scores
         /\ handler' = r.handler
         /\ response' = [returned |-> r.returned, parts |-> r.parts]
    /\ pc' = "answered"
    /\ event' = "asked"
    /\ UNCHANGED <<crypto_data, feed, fetch_ok, loop_vars, rank_vars>>

\* handle_comparison_query(user_input) called on a text
Compare ==
    /\ pc = "prompt"
    /\ \E text \in Inputs :
         /\ user_input' = text
         /\ response' = handle_comparison_query(crypto_data, text)
    /\ intent_scores' = <<>>
    /\ handler' = "handle_comparison_query"
    /\ pc' = "answered"
    /\ event' = "compared"
    /\ UNCHANGED <<crypto_data, feed, fetch_ok, loop_vars, rank_vars>>

NextAsk == StartupFetch \/ Ask \/ Compare

SpecAsk == Init /\ [][NextAsk]_vars

\* the words of a text: its maximal runs of letters, digits and '_'
WordsOf(text) == LET ws == Runs(lower(text), "word") IN {ws[n] : n \in 1..Len(ws)}

ExitKeywords == { <<"e","x","i","t">>, <<"q","u","i","t">>, <<"b","y","e">> }

\* the assets whose name occurs in a text, whatever the case of the letters
NamedIn(text) == { a \in AssetSet : Contains(lower(text), lower(NameChars[a])) }

\* the parts of the reply of a given kind
PartsOf(kind) == SelectSeq(response.parts, LAMBDA p : p.part = kind)

\* position in the table
Position(a) == CHOOSE n \in 1..Len(Assets) : Assets[n] = a

\* C2: an input that holds "exit", "quit" or "bye" as a whole word, in any
\* letter case, gets the sentinel EXIT from the exit check, whatever the other
\* words and their scores; no intent is scored and no handler runs.
ExitKeywordGivesExit ==
    (event = "asked" /\ WordsOf(user_input) \cap ExitKeywords # {}) =>
        /\ response = Returned(<<Text("EXIT")>>)
        /\ handler = "exit"
        /\ intent_scores = <<>>

\* "Quit" typed with a capital, after a word the price intent matches
ExitAmongOtherWords ==
    /\ event = "asked"
    /\ <<"q","u","i","t">> \in WordsOf(user_input)
    /\ user_input # lower(user_input)
    /\ match_pattern(user_input, "price")
    /\ ~re_match(patterns["exit"][1], user_input)
    /\ response = Returned(<<Text("EXIT")>>)

\* C6: every response get_response returns, other than EXIT and the greeting,
\* thanks and help texts, ends with the disclaimer.
EveryReplyEndsWithDisclaimer ==
    (event = "asked" /\ response.returned
       /\ handler \notin {"exit", "greeting", "thanks", "help"}) =>
        /\ Len(response.parts) > 0
        /\ response.parts[Len(response.parts)] = ethics_disclaimer

\* C7: a response of the price branch holds the detail block of every asset
\* the input names; when the input names none it holds one row for each
\* asset whose current price is > 0 and for no other asset.
PriceReplyCoversNamedAssets ==
    (event = "asked" /\ response.returned /\ handler = "price") =>
        IF NamedIn(user_input) # {}
        THEN \A a \in NamedIn(user_input) :
                \E k \in 1..Len(response.parts) :
                    response.parts[k] = DetailBlock(crypto_data, a)
        ELSE LET rows == PartsOf("price_row")
             IN  /\ {rows[k].name : k \in 1..Len(rows)}
                      = {a \in AssetSet : crypto_data[a].current_price.v > 0}
                 /\ PartsOf("details") = <<>>

\* the stored price of an asset can be compared with 0 and, when it is > 0,
\* its stored 24h change can be formatted
Readable(a) ==
    /\ crypto_data[a].current_price.t = "number"
    /\ crypto_data[a].current_price.v > 0 => crypto_data[a].price_change_24h.t = "number"

IntentPosition(i) == CHOOSE n \in 1..Len(IntentOrder) : IntentOrder[n] = i

\* the intents of the mapping analyze_intent returned, and their scores
Scored == { intent_scores[n][1] : n \in 1..Len(intent_scores) }

ScoreOf(i) == (CHOOSE item \in {intent_scores[n] : n \in 1..Len(intent_scores)} :
                  item[1] = i)[2]

\* the intents no other intent beats: greatest score, and first in the intent
\* table among those of that score
Winners ==
    { i \in Scored :
        \A j \in Scored :
            \/ ScoreOf(j) < ScoreOf(i)
            \/ ScoreOf(j) = ScoreOf(i) /\ IntentPosition(i) <= IntentPosition(j) }

\* the code after the intent branches answered: the detail block of a named
\* asset if the input names one, else the default text
FallThroughReply ==
    IF NamedIn(user_input) # {}
    THEN /\ handler = "mention"
         /\ response.returned =>
              \E a \in NamedIn(user_input) :
                  response.parts = <<DetailBlock(crypto_data, a), ethics_disclaimer>>
    ELSE /\ handler = "default"
         /\ response = Returned(<<Text("default"), ethics_disclaimer>>)

-----------------------------------------------------------------------------
(* chat(): the loop                                                        *)

\* if self.query_count % 10 == 0
RefreshEvery == 10

\* the largest number of accepted lines of a run
MaxTurns == 21

\* the lines typed in a run of the loop
ChatLines ==
    { <<>>, <<" ", " ">>,
      <<"h","e","l","l","o">>,
      <<" ","p","r","i","c","e">>,
      <<"e","x","i","t","s">>,
      <<"p","r","i","c","e"," ","b","y","e","!">> }

\* the outcomes of the request of a periodic refresh
RefreshFeeds == {TimeoutFeed, LivelyFeed, NullPriceFeed}

\* KeyboardInterrupt before the loop, while the banner is printed or the
\* start-up fetch waits: no try statement is around it, chat() is left
StartupInterrupt ==
    /\ pc = "startup"
    /\ pc' = "stopped"
    /\ event' = "interrupt"
    /\ UNCHANGED <<crypto_data, feed, fetch_ok, turn_vars, loop_vars, rank_vars>>

\* KeyboardInterrupt inside the try statement of the loop: farewell, break
LoopInterrupt ==
    /\ pc = "prompt"
    /\ farewell' = TRUE
    /\ pc' = "stopped"
    /\ event' = "interrupt"
    /\ UNCHANGED <<crypto_data, feed, fetch_ok, turn_vars, query_count, accepted,
                   refreshed, rank_vars>>

\* input() raises EOFError: caught by `except Exception`, the loop goes on
ReadError ==
    /\ pc = "prompt"
    /\ event' = "read_error"
    /\ refreshed' = FALSE
    /\ UNCHANGED <<crypto_data, pc, feed, fetch_ok, turn_vars, query_count, accepted,
                   farewell, rank_vars>>

\* a line that is empty after strip(): `continue`
BlankLine ==
    /\ pc = "prompt"
    /\ \E line \in ChatLines :
         /\ strip(line) = <<>>
         /\ user_input' = strip(line)
    /\ event' = "blank"
    /\ refreshed' = FALSE
    /\ UNCHANGED <<crypto_data, pc, feed, fetch_ok, intent_scores, handler, response,
                   query_count, accepted, farewell, rank_vars>>

\* self.query_count after the counting code of a printed turn: 1 when the
\* attribute is absent, else one more
counted(count) == IF count = Unset THEN Num(1) ELSE Num(count.v + 1)

\* one pass of the loop body for a line that is not blank
Turn ==
    /\ pc = "prompt"
    /\ accepted < MaxTurns
    /\ \E line \in ChatLines : \E r \in Replies(crypto_data, strip(line)) :
         /\ strip(line) # <<>>
         /\ user_input' = strip(line)
         /\ intent_scores' = r.scores
         /\ handler' = r.handler
         /\ response' = [returned |-> r.returned, parts |-> r.parts]
         /\ IF ~r.returned
            THEN \* an exception in get_response: reported, nothing counted
                 /\ event' = "failed"
                 /\ accepted' = accepted + 1
                 /\ refreshed' = FALSE
                 /\ UNCHANGED <<crypto_data, pc, feed, fetch_ok, query_count, farewell>>
            ELSE IF r.parts = <<Text("EXIT")>>
            THEN /\ event' = "exit"
                 /\ farewell' = TRUE
                 /\ pc' = "stopped"
                 /\ UNCHANGED <<crypto_data, feed, fetch_ok, query_count, accepted,
                                refreshed>>
            ELSE /\ event' = "answered"
                 /\ accepted' = accepted + 1
                 /\ query_count' = counted(query_count)
                 /\ IF query_count'.v % RefreshEvery = 0
                    THEN \E f \in RefreshFeeds :
                           LET done == fetch_real_time_data(crypto_data, f)
                           IN  /\ crypto_data' = done.data
                               /\ fetch_ok' = done.ok
                               /\ feed' = f
                               /\ refreshed' = TRUE
                    ELSE /\ refreshed' = FALSE
                         /\ UNCHANGED <<crypto_data, feed, fetch_ok>>
                 /\ UNCHANGED <<pc, farewell>>
    /\ UNCHANGED rank_vars

\* a printed turn whose periodic refresh is cut by KeyboardInterrupt while the
\* request waits: the except clause of the loop prints the farewell
TurnInterruptedInRefresh ==
    /\ pc = "prompt"
    /\ accepted < MaxTurns
    /\ \E line \in ChatLines : \E r \in Replies(crypto_data, strip(line)) :
         /\ strip(line) # <<>>
         /\ r.returned
         /\ r.parts # <<Text("EXIT")>>
         /\ counted(query_count).v % RefreshEvery = 0
         /\ user_input' = strip(line)
         /\ intent_scores' = r.scores
         /\ handler' = r.handler
         /\ response' = [returned |-> r.returned, parts |-> r.parts]
    /\ query_count' = counted(query_count)
    /\ accepted' = accepted + 1
    /\ refreshed' = TRUE
    /\ farewell' = TRUE
    /\ pc' = "stopped"
    /\ event' = "interrupt"
    /\ UNCHANGED <<crypto_data, feed, fetch_ok, rank_vars>>

Next ==
    \/ StartupFetch
    \/ StartupInterrupt
    \/ BlankLine
    \/ ReadError
    \/ Turn
    \/ TurnInterruptedInRefresh
    \/ LoopInterrupt

Spec == Init /\ [][Next]_vars

\* C3: chat() stops only after the exit sentinel or an interrupt, and in both
\* cases after a farewell is printed, also for an interrupt during the
\* start-up fetch or a periodic refresh; an error raised in a turn is
\* reported and the loop reads the next line.
ChatStopsOnlyWithFarewell ==
    /\ pc = "stopped" => (event \in {"exit", "interrupt"} /\ farewell)
    /\ event \in {"failed", "read_error"} => pc = "prompt"

\* C9: the periodic refresh is triggered right after the k-th accepted
\* (non-blank, non-exit) line for k = 10, 20, ... and after no other line,
\* also when a turn before it ended in a caught error; blank lines trigger
\* nothing.
RefreshEveryTenAccepted ==
    /\ (pc = "prompt" /\ event \in {"answered", "failed"})
           => (refreshed <=> accepted % 10 = 0)
    /\ event \in {"blank", "read_error"} => ~refreshed

====
